---- MODULE Spec2Model ----
(***************************************************************************)
(* A model of buildsheet.py: get_board_info reads an EAGLE board document  *)
(* into a BoardInfo (bounding box, components, four indices), and          *)
(* layout_by_same_value emits one page per (value, prefix) group of the    *)
(* components on a layer.                                                  *)
(*                                                                         *)
(* Attribute strings whose syntax the code inspects (names, rotation       *)
(* descriptors, numbers) are sequences of one-character strings, so that   *)
(* the regular expressions and float() are computed, not assumed.  Python  *)
(* dicts are insertion-ordered association lists.  XML elements are        *)
(* functions from the attribute names they carry to the attribute values:  *)
(* elem.get(a) is None exactly when a is not in DOMAIN elem.               *)
(* The pad polygon's corner coordinates (sin/cos arithmetic) are not       *)
(* modelled: a pad draw is recorded by component, pad and fill tone.       *)
(***************************************************************************)
EXTENDS Integers, Sequences, FiniteSets, TLC

VARIABLES
    pc,     \* position of the program
    doc,    \* the parsed document tree: layers, wires, elements
    bi,     \* the BoardInfo under construction / returned
    ourcomps, \* get_board_info's local component list
    next_elem, \* index of the next element of the //element loop
    err,    \* message of the exception that ended the run, or NoError
    layer,  \* the layer argument handed to layout_by_same_value
    next_val, \* index of the next key of the value loop of the layout driver
    cv      \* the canvas: the sequence of drawing operations issued

vars == <<pc, doc, bi, ourcomps, next_elem, err, layer, next_val, cv>>

\* ---------------------------------------------------------------- bounds
MaxWires == 2
MaxElements == 2

\* ------------------------------------------------------------ characters
\* The characters used by the inputs, in code point order (Python compares
\* strings by code point).
Ascii ==
    <<" ", "+", "-", ".", "0", "1", "2", "3", "4", "5", "6", "7", "8", "9",
      "A", "B", "C", "D", "E", "F", "G", "H", "I", "J", "K", "L", "M", "N",
      "O", "P", "Q", "R", "S", "T", "U", "V", "W", "X", "Y", "Z",
      "a", "b", "c", "d", "e", "f", "g", "h", "i", "j", "k", "l", "m", "n",
      "o", "p", "q", "r", "s", "t", "u", "v", "w", "x", "y", "z">>

OrdOf == [ch \in {Ascii[i] : i \in 1..Len(Ascii)} |-> CHOOSE i \in 1..Len(Ascii) : Ascii[i] = ch]
Ord(ch) == OrdOf[ch]

IsSpace(ch) == ch = " "
IsDigit(ch) == Ord(ch) \in Ord("0")..Ord("9")
IsAlpha(ch) == Ord(ch) \in (Ord("A")..Ord("Z")) \cup (Ord("a")..Ord("z"))

AllSpace(s, lo, hi) == \A k \in lo..hi : IsSpace(s[k])
AllDigit(s, lo, hi) == \A k \in lo..hi : IsDigit(s[k])
AllAlpha(s, lo, hi) == \A k \in lo..hi : IsAlpha(s[k])

RECURSIVE DigitsToInt(_)
DigitsToInt(s) ==
    IF s = <<>> THEN 0
    ELSE 10 * DigitsToInt(SubSeq(s, 1, Len(s) - 1)) + (Ord(s[Len(s)]) - Ord("0"))

\* ----------------------------------------------------------------- floats
\* A Python float: finite (integral here), +-inf or nan; NoneF is None.
Fin(n) == [k |-> "fin", v |-> n]
Inf(sign) == [k |-> "inf", v |-> sign]
NaN == [k |-> "nan", v |-> 0]
NoneF == [k |-> "none", v |-> 0]

\* float(f) on the inputs used here: optional sign, then decimal digits, or
\* "inf", or "nan"; anything else raises ValueError.
PyFloat(f) ==
    LET signed == Len(f) > 0 /\ f[1] \in {"+", "-"}
        sign == IF Len(f) > 0 /\ f[1] = "-" THEN -1 ELSE 1
        body == IF signed THEN SubSeq(f, 2, Len(f)) ELSE f
    IN  IF Len(body) > 0 /\ AllDigit(body, 1, Len(body))
            THEN [ok |-> TRUE, v |-> Fin(sign * DigitsToInt(body))]
        ELSE IF body = <<"i", "n", "f">> THEN [ok |-> TRUE, v |-> Inf(sign)]
        ELSE IF body = <<"n", "a", "n">> THEN [ok |-> TRUE, v |-> NaN]
        ELSE [ok |-> FALSE, v |-> NoneF]

\* a < b on floats; every comparison with nan is false.
FLess(a, b) ==
    IF a.k = "nan" \/ b.k = "nan" THEN FALSE
    ELSE IF a.k = "inf" THEN a.v = -1 /\ ~(b.k = "inf" /\ b.v = -1)
    ELSE IF b.k = "inf" THEN b.v = 1
    ELSE a.v < b.v

\* Python's min(a, b, c) / max(a, b, c): the first argument is kept unless a
\* later one compares smaller (larger).
PyMin3(a, b, c) ==
    LET m == IF FLess(b, a) THEN b ELSE a
    IN  IF FLess(c, m) THEN c ELSE m

PyMax3(a, b, c) ==
    LET m == IF FLess(a, b) THEN b ELSE a
    IN  IF FLess(m, c) THEN c ELSE m

\* a - b on floats (bi.width, bi.height).
FSub(a, b) ==
    IF a.k = "nan" \/ b.k = "nan" THEN NaN
    ELSE IF a.k = "inf" /\ b.k = "inf" THEN (IF a.v = b.v THEN NaN ELSE a)
    ELSE IF a.k = "inf" THEN a
    ELSE IF b.k = "inf" THEN Inf(-b.v)
    ELSE Fin(a.v - b.v)

NoError == "none"

getfloat(elem, name) ==
    IF name \notin DOMAIN elem
        THEN [ok |-> FALSE, v |-> NoneF, err |-> "Expecting attribute"]
    ELSE IF ~PyFloat(elem[name]).ok
        THEN [ok |-> FALSE, v |-> NoneF, err |-> "Non-float value for attribute"]
    ELSE [ok |-> TRUE, v |-> PyFloat(elem[name]).v, err |-> NoError]

\* ---------------------------------------------------- regular expressions
\* angle_re = ^(M?)R(\d+)(?:\.\d+)?$ ; deg is float(m.group(2)).
angle_re(rot) ==
    LET hasM == Len(rot) > 0 /\ rot[1] = "M"
        r == IF hasM THEN SubSeq(rot, 2, Len(rot)) ELSE rot
        n == Len(r)
        Ends == {d \in 2..n :
                    /\ AllDigit(r, 2, d)
                    /\ \/ d = n
                       \/ /\ d + 2 <= n
                          /\ r[d + 1] = "."
                          /\ AllDigit(r, d + 2, n)}
    IN  IF n >= 2 /\ r[1] = "R" /\ Ends # {}
            THEN [ok |-> TRUE, M |-> hasM,
                  deg |-> DigitsToInt(SubSeq(r, 2, CHOOSE d \in Ends : TRUE))]
        ELSE [ok |-> FALSE, M |-> FALSE, deg |-> 0]

\* re.match of prefix_re = \s*([A-Za-z]+)\s*\d+\s*$ ; the result is group 1,
\* or NoPrefix (None) when the name does not match.
NoPrefix == <<>>

prefix_re(name) ==
    LET n == Len(name)
        Ms == {m \in (1..n) \X (1..n) \X (1..n) \X (1..n) :
                  /\ m[1] <= m[2] /\ m[2] < m[3] /\ m[3] <= m[4]
                  /\ AllSpace(name, 1, m[1] - 1)
                  /\ AllAlpha(name, m[1], m[2])
                  /\ AllSpace(name, m[2] + 1, m[3] - 1)
                  /\ AllDigit(name, m[3], m[4])
                  /\ AllSpace(name, m[4] + 1, n)}
    IN  IF Ms = {} THEN NoPrefix
        ELSE LET m == CHOOSE m \in Ms : TRUE IN SubSeq(name, m[1], m[2])

\* ------------------------------------------------------------------ dicts
DictHas(d, key) == \E i \in 1..Len(d) : d[i].k = key

DictGet(d, key) == d[CHOOSE i \in 1..Len(d) : d[i].k = key].v

\* d[key] = x
DictSet(d, key, x) ==
    IF DictHas(d, key)
        THEN [i \in 1..Len(d) |-> IF d[i].k = key THEN [k |-> key, v |-> x] ELSE d[i]]
    ELSE Append(d, [k |-> key, v |-> x])

\* Mutant of DictAppend: the list of the key is replaced, not extended.
DictAppend_overwrite(d, key, x) == DictSet(d, key, <<x>>)

\* if key in d: d[key].append(x) else: d[key] = [x]
DictAppend(d, key, x) ==
    IF DictHas(d, key)
        THEN DictSet(d, key, Append(DictGet(d, key), x))
    ELSE DictSet(d, key, <<x>>)

\* ------------------------------------------------------ the input document
\* An element without attribute a.
Without(e, a) == [k \in DOMAIN e \ {a} |-> e[k]]

\* <layer name=".." number=".."/>
LayerDef(name, number) == [name |-> name, number |-> number]

\* <wire layer=".." x1=".." y1=".." x2=".." y2=".."/>
Wire(l, x1, y1, x2, y2) == [layer |-> l, x1 |-> x1, y1 |-> y1, x2 |-> x2, y2 |-> y2]

\* <smd layer=".." x="0" y="0" dx=".." dy=".."/>
Smd(l, dx, dy) == [layer |-> l, x |-> <<"0">>, y |-> <<"0">>, dx |-> dx, dy |-> dy]

\* <element name=".." value=".." package=".." x="1" y="2"/>
Element(name, value, package) ==
    [name |-> name, value |-> value, package |-> package, x |-> <<"1">>, y |-> <<"2">>]

\* The <packages> section of the documents considered: each package with
\* its smd children in document order.
Packages ==
    <<[name |-> "0402", smds |-> <<Smd("1", <<"1">>, <<"2">>), Smd("1", <<"1">>, <<"2">>)>>],
      [name |-> "MIX", smds |-> <<Smd("1", <<"1">>, <<"1">>), Smd("16", <<"1">>, <<"1">>)>>],
      [name |-> "BOT", smds |-> <<Smd("16", <<"3">>, <<"1">>)>>],
      [name |-> "INNER", smds |-> <<Smd("2", <<"1">>, <<"1">>)>>],
      [name |-> "HOLE", smds |-> <<>>],
      [name |-> "NEG", smds |-> <<Smd("1", <<"-", "1">>, <<"1">>)>>],
      [name |-> "INF", smds |-> <<Smd("1", <<"1">>, <<"i", "n", "f">>)>>],
      [name |-> "BADF", smds |-> <<Smd("1", <<"1">>, <<"a", "b", "c">>)>>],
      [name |-> "FRAC", smds |-> <<Smd("1", <<"1">>, <<"1">>) @@ ("rot" :> <<"R", "4", "5", ".", "5">>)>>],
      [name |-> "MROT", smds |-> <<Smd("1", <<"1">>, <<"1">>) @@ ("rot" :> <<"M", "R", "9", "0">>)>>],
      [name |-> "BADROT", smds |-> <<Smd("1", <<"1">>, <<"1">>) @@ ("rot" :> <<"9", "0">>)>>]>>

\* root.xpath("//tag[@name='nm']") over a sequence of elements
XPathByName(elems, nm) ==
    SelectSeq(elems, LAMBDA e : "name" \in DOMAIN e /\ e.name = nm)

\* root.xpath("//wire[@layer='20']")
XPathDimensionWires(wires) ==
    SelectSeq(wires, LAMBDA w : "layer" \in DOMAIN w /\ w.layer = "20")

\* ------------------------------------------------------------- BoardInfo
Unset == "unset"

BoardInfo ==
    [value_to_components |-> <<>>,
     name_to_component |-> <<>>,
     layer_to_components |-> <<>>,
     layer_value_to_components |-> <<>>,
     components |-> <<>>,
     dimension_layer_number |-> Unset, top_layer |-> Unset, bottom_layer |-> Unset,
     xmin |-> NoneF, xmax |-> NoneF, ymin |-> NoneF, ymax |-> NoneF,
     width |-> NoneF, height |-> NoneF]

Component(id, x, y, name, prefix, value, pads, angle, complayer) ==
    [id |-> id, x |-> x, y |-> y, name |-> name, prefix |-> prefix, value |-> value,
     pads |-> pads, angle |-> angle, layer |-> complayer]

Pad(x, y, width, height, angle) ==
    [x |-> x, y |-> y, width |-> width, height |-> height, angle |-> angle]

Init ==
    /\ pc = "parse_layers"
    /\ doc = [layers |-> <<>>, wires |-> <<>>, elements |-> <<>>]
    /\ bi = BoardInfo
    /\ ourcomps = <<>>
    /\ next_elem = 1
    /\ err = NoError
    /\ layer = Unset
    /\ next_val = 1
    /\ cv = <<>>

\* The run ends with an uncaught exception.
Raise(msg) ==
    /\ pc' = "failed"
    /\ err' = msg

\* ------------------------------------------------- ET.parse: the document
ParseLayers(LayerTables) ==
    /\ pc = "parse_layers"
    /\ \E lt \in LayerTables : doc' = [doc EXCEPT !.layers = lt]
    /\ pc' = "parse_body"
    /\ UNCHANGED <<bi, ourcomps, next_elem, err, layer, next_val, cv>>

ParseWire(Wires) ==
    /\ pc = "parse_body"
    /\ doc.elements = <<>>
    /\ Len(doc.wires) < MaxWires
    /\ \E w \in Wires : doc' = [doc EXCEPT !.wires = Append(@, w)]
    /\ UNCHANGED <<pc, bi, ourcomps, next_elem, err, layer, next_val, cv>>

ParseElement(Elements) ==
    /\ pc = "parse_body"
    /\ Len(doc.elements) < MaxElements
    /\ \E e \in Elements : doc' = [doc EXCEPT !.elements = Append(@, e)]
    /\ UNCHANGED <<pc, bi, ourcomps, next_elem, err, layer, next_val, cv>>

\* ------------------------------------------------------- get_board_info
\* Lines 68-82: the numbers of the Dimension, Top and Bottom layers.
GetLayers ==
    /\ pc = "parse_body"
    /\ LET dl == XPathByName(doc.layers, "Dimension")
           tl == XPathByName(doc.layers, "Top")
           bl == XPathByName(doc.layers, "Bottom")
       IN  IF Len(dl) = 0 THEN Raise("Could not find Dimension layer def") /\ bi' = bi
           ELSE IF Len(tl) = 0 THEN Raise("Could not find Top layer def") /\ bi' = bi
           ELSE IF Len(bl) = 0 THEN Raise("Could not find Bottom layer def") /\ bi' = bi
           ELSE /\ bi' = [bi EXCEPT
                     !.dimension_layer_number =
                         IF "number" \in DOMAIN dl[1] THEN dl[1].number ELSE 20,
                     !.top_layer = IF "number" \in DOMAIN tl[1] THEN tl[1].number ELSE "1",
                     !.bottom_layer = IF "number" \in DOMAIN bl[1] THEN bl[1].number ELSE "16"]
                /\ pc' = "bounds"
                /\ err' = err
    /\ UNCHANGED <<doc, ourcomps, next_elem, layer, next_val, cv>>

\* Lines 88-94: the min/max loop over the selected wires, from wire i on.
\* getfloat raises at the first attribute that is missing or not a float.
RECURSIVE bounding_rectangle(_, _, _)
bounding_rectangle(ws, i, box) ==
    IF i > Len(ws) THEN [ok |-> TRUE, box |-> box, err |-> NoError]
    ELSE LET w == ws[i]
             x1 == getfloat(w, "x1")
             x2 == getfloat(w, "x2")
             y1 == getfloat(w, "y1")
             y2 == getfloat(w, "y2")
         IN  IF ~x1.ok THEN [ok |-> FALSE, box |-> box, err |-> x1.err]
             ELSE IF ~x2.ok THEN [ok |-> FALSE, box |-> box, err |-> x2.err]
             ELSE IF ~y1.ok THEN [ok |-> FALSE, box |-> box, err |-> y1.err]
             ELSE IF ~y2.ok THEN [ok |-> FALSE, box |-> box, err |-> y2.err]
             ELSE bounding_rectangle(ws, i + 1,
                     [xmin |-> PyMin3(box.xmin, x1.v, x2.v),
                      ymin |-> PyMin3(box.ymin, y1.v, y2.v),
                      xmax |-> PyMax3(box.xmax, x1.v, x2.v),
                      ymax |-> PyMax3(box.ymax, y1.v, y2.v)])

\* Lines 84-100: the bounding rectangle from the dimension layer wires.
GetBounds ==
    /\ pc = "bounds"
    /\ LET ws == XPathDimensionWires(doc.wires)
           r == bounding_rectangle(ws, 1,
                    [xmin |-> Inf(1), ymin |-> Inf(1), xmax |-> Inf(-1), ymax |-> Inf(-1)])
       IN  IF Len(ws) < 2
               THEN Raise("Error processing dimension layer wires") /\ bi' = bi
           ELSE IF ~r.ok THEN Raise(r.err) /\ bi' = bi
           ELSE /\ bi' = [bi EXCEPT
                     !.xmin = r.box.xmin, !.xmax = r.box.xmax,
                     !.ymin = r.box.ymin, !.ymax = r.box.ymax,
                     !.width = FSub(r.box.xmax, r.box.xmin),
                     !.height = FSub(r.box.ymax, r.box.ymin)]
                /\ pc' = "components"
                /\ err' = err
    /\ UNCHANGED <<doc, ourcomps, next_elem, layer, next_val, cv>>

\* Lines 150-156: the layer of the component, from its first pad's layer.
NoLayer == "None"

\* Mutant of mirror_layer: "if" for "elif", so a layer swapped to bottom is
\* swapped back.
mirror_layer_no_elif(padlayer, mirrored, top_layer, bottom_layer) ==
    IF mirrored
        THEN LET swapped == IF padlayer = top_layer THEN bottom_layer ELSE padlayer
             IN  IF swapped = bottom_layer THEN top_layer ELSE swapped
    ELSE padlayer

mirror_layer(padlayer, mirrored, top_layer, bottom_layer) ==
    IF mirrored
        THEN IF padlayer = top_layer THEN bottom_layer
             ELSE IF padlayer = bottom_layer THEN top_layer
             ELSE padlayer
    ELSE padlayer

\* Lines 146-175: the loop over the package's smd pads, from pad i on.
RECURSIVE pad_loop(_, _, _, _, _, _)
pad_loop(b, mirrored, ppads, i, complayer, ourpads) ==
    IF i > Len(ppads)
        THEN [ok |-> TRUE, err |-> NoError, complayer |-> complayer, pads |-> ourpads]
    ELSE
        LET p == ppads[i]
            Fail(msg) == [ok |-> FALSE, err |-> msg, complayer |-> complayer, pads |-> ourpads]
        IN  IF "layer" \notin DOMAIN p THEN Fail("Could not get pad layer")
            ELSE
            LET cl == IF complayer = NoLayer
                          THEN mirror_layer(p.layer, mirrored, b.top_layer, b.bottom_layer)
                      ELSE complayer
                x == getfloat(p, "x")
                y == getfloat(p, "y")
                hasrot == "rot" \in DOMAIN p
                m == IF hasrot THEN angle_re(p.rot) ELSE [ok |-> TRUE, M |-> FALSE, deg |-> 0]
                pangle == IF hasrot THEN Fin(m.deg) ELSE NoneF
                dx == getfloat(p, "dx")
                dy == getfloat(p, "dy")
            IN  IF ~x.ok THEN Fail(x.err)
                ELSE IF ~y.ok THEN Fail(y.err)
                ELSE IF ~m.ok THEN Fail("Could not parse angle")
                ELSE IF ~dx.ok THEN Fail(dx.err)
                ELSE IF ~dy.ok THEN Fail(dy.err)
                ELSE pad_loop(b, mirrored, ppads, i + 1, cl,
                              Append(ourpads, Pad(x.v, y.v, dx.v, dy.v, pangle)))

\* Mutant of no_pads: "<" for "==".
no_pads_less(ppads) == Len(ppads) < 0

\* Line 127: the package has no smd pads.
no_pads(ppads) == Len(ppads) = 0

\* Lines 106-186: one element c (the id-th of the document): an exception, a
\* skip, or the Component built from it.
get_component(b, c, id) ==
    LET Fail(msg) == [status |-> "raise", err |-> msg]
    IN
    IF "name" \notin DOMAIN c \/ c.name = <<>> THEN Fail("Component without name")
    ELSE IF "value" \notin DOMAIN c THEN Fail("Component without value")
    ELSE IF "package" \notin DOMAIN c THEN Fail("Component without package")
    ELSE
    LET compprefix == prefix_re(c.name)
        package == XPathByName(Packages, c.package)
    IN
    IF Len(package) = 0 THEN Fail("Could not find package")
    ELSE IF no_pads(package[1].smds) THEN [status |-> "skip", err |-> NoError]
    ELSE
    LET ppads == package[1].smds
        compx == getfloat(c, "x")
        compy == getfloat(c, "y")
        hasrot == "rot" \in DOMAIN c
        m == IF hasrot THEN angle_re(c.rot) ELSE [ok |-> TRUE, M |-> FALSE, deg |-> 0]
        eangle == IF hasrot THEN Fin(m.deg) ELSE NoneF
        mirrored == m.M
    IN
    IF ~compx.ok THEN Fail(compx.err)
    ELSE IF ~compy.ok THEN Fail(compy.err)
    ELSE IF ~m.ok THEN Fail("Could not parse angle")
    ELSE
    LET r == pad_loop(b, mirrored, ppads, 1, NoLayer, <<>>)
    IN  IF ~r.ok THEN Fail(r.err)
        ELSE [status |-> "ok", err |-> NoError,
              com |-> Component(id, compx.v, compy.v, c.name, compprefix, c.value,
                                r.pads, eangle, r.complayer)]

\* Lines 189-203: the four indices.
add_to_indices(b, com) ==
    [b EXCEPT
        !.name_to_component = DictSet(@, com.name, com),
        !.value_to_components = DictAppend(@, com.value, com),
        !.layer_to_components = DictAppend(@, com.layer, com),
        !.layer_value_to_components = DictAppend(@, <<com.layer, com.value>>, com)]

\* Lines 105-203: one iteration of the loop over the elements.
GetComponent ==
    /\ pc = "components"
    /\ next_elem <= Len(doc.elements)
    /\ LET r == get_component(bi, doc.elements[next_elem], next_elem)
       IN  CASE r.status = "raise" ->
                    /\ Raise(r.err)
                    /\ UNCHANGED <<bi, ourcomps, next_elem>>
             [] r.status = "skip" ->
                    /\ next_elem' = next_elem + 1
                    /\ UNCHANGED <<pc, err, bi, ourcomps>>
             [] r.status = "ok" ->
                    /\ ourcomps' = Append(ourcomps, r.com)
                    /\ bi' = add_to_indices(bi, r.com)
                    /\ next_elem' = next_elem + 1
                    /\ UNCHANGED <<pc, err>>
    /\ UNCHANGED <<doc, layer, next_val, cv>>

\* Lines 205-206.
ReturnBoardInfo ==
    /\ pc = "components"
    /\ next_elem > Len(doc.elements)
    /\ bi' = [bi EXCEPT !.components = ourcomps]
    /\ pc' = "extracted"
    /\ UNCHANGED <<doc, ourcomps, next_elem, err, layer, next_val, cv>>

\* ------------------------------------------------------------- rendering
NORMAL_COLOR == "lightgrey"
HIGHLIGHT_COLOR == "black"

\* Lines 208-222: one filled polygon for pad number p of component c.
render_component_pad(c, p, highlight) ==
    [op |-> "drawPath", c |-> c.id, p |-> p,
     fill |-> IF highlight THEN HIGHLIGHT_COLOR ELSE NORMAL_COLOR]

\* for p in c.pads: render_component_pad(cv, bi, c, p, highlight)
render_pads(c, highlight) ==
    [p \in 1..Len(c.pads) |-> render_component_pad(c, p, highlight)]

\* c in cs
PyIn(c, cs) == \E i \in 1..Len(cs) : cs[i] = c

\* Lines 225-229: the pads of the components of all_cs that are not in val_cs.
RECURSIVE render_others(_, _, _)
render_others(all_cs, val_cs, i) ==
    IF i > Len(all_cs) THEN <<>>
    ELSE (IF PyIn(all_cs[i], val_cs) THEN <<>> ELSE render_pads(all_cs[i], FALSE))
         \o render_others(all_cs, val_cs, i + 1)

\* Lines 231-233: the pads of the components of val_cs.
RECURSIVE render_highlighted(_, _)
render_highlighted(val_cs, i) ==
    IF i > Len(val_cs) THEN <<>>
    ELSE render_pads(val_cs[i], TRUE) \o render_highlighted(val_cs, i + 1)

\* Mutant of render_components: the two loops in the other order.
render_components_highlight_first(all_cs, val_cs) ==
    render_highlighted(val_cs, 1) \o render_others(all_cs, val_cs, 1)

\* Lines 224-233: the drawing operations of render_components.
render_components(all_cs, val_cs) ==
    render_others(all_cs, val_cs, 1) \o render_highlighted(val_cs, 1)

\* a < b on strings: lexicographic by code point.
RECURSIVE StrLess(_, _)
StrLess(a, b) ==
    IF b = <<>> THEN FALSE
    ELSE IF a = <<>> THEN TRUE
    ELSE IF a[1] # b[1] THEN Ord(a[1]) < Ord(b[1])
    ELSE StrLess(Tail(a), Tail(b))

\* names.sort()
RECURSIVE PySort(_)
PySort(names) ==
    IF names = <<>> THEN <<>>
    ELSE LET rest == PySort(Tail(names))
             k == Cardinality({i \in 1..Len(rest) : StrLess(rest[i], names[1])})
         IN  SubSeq(rest, 1, k) \o <<names[1]>> \o SubSeq(rest, k + 1, Len(rest))

\* Mutant of group_by_prefix: the key is the name, not the prefix.
RECURSIVE group_by_name(_, _, _)
group_by_name(val_cs, i, prefixes) ==
    IF i > Len(val_cs) THEN prefixes
    ELSE group_by_name(val_cs, i + 1, DictAppend(prefixes, val_cs[i].name, val_cs[i]))

\* Lines 248-253: val_cs partitioned by prefix, from component i on.
RECURSIVE group_by_prefix(_, _, _)
group_by_prefix(val_cs, i, prefixes) ==
    IF i > Len(val_cs) THEN prefixes
    ELSE group_by_prefix(val_cs, i + 1, DictAppend(prefixes, val_cs[i].prefix, val_cs[i]))

\* Lines 258-264: the page of one prefix group.
page_of(val, prefix_cs, all_cs, val_cs) ==
    LET names == PySort([i \in 1..Len(prefix_cs) |-> prefix_cs[i].name])
    IN  <<[op |-> "drawCentredString", val |-> val, names |-> names]>>
        \o render_components(all_cs, val_cs)
        \o <<[op |-> "showPage"]>>

\* Lines 257-264: the pages of the prefix groups, from group i on.
RECURSIVE pages_of(_, _, _, _, _)
pages_of(val, prefixes, all_cs, val_cs, i) ==
    IF i > Len(prefixes) THEN <<>>
    ELSE page_of(val, prefixes[i].v, all_cs, val_cs)
         \o pages_of(val, prefixes, all_cs, val_cs, i + 1)

\* layer.lower() on the arguments considered
PyLower(arg) ==
    CASE arg = "TOP" -> "top"
      [] arg = "Bottom" -> "bottom"
      [] OTHER -> arg

\* Lines 277-286 and 236-242: the layer argument is resolved, the canvas is
\* created and layout_by_same_value sets the page size (board width by board
\* height plus a tenth of it for the heading).
Main(LayerArgs) ==
    /\ pc = "extracted"
    /\ \E arg \in LayerArgs :
          layer' = IF PyLower(arg) = "top" THEN bi.top_layer
                   ELSE IF PyLower(arg) = "bottom" THEN bi.bottom_layer
                   ELSE arg
    /\ cv' = <<[op |-> "setPageSize", width |-> bi.width, height |-> bi.height]>>
    /\ next_val' = 1
    /\ pc' = "layout"
    /\ UNCHANGED <<doc, bi, ourcomps, next_elem, err>>

\* Lines 243-264: one iteration of the loop over the values.
LayoutValue ==
    /\ pc = "layout"
    /\ next_val <= Len(bi.value_to_components)
    /\ LET val == bi.value_to_components[next_val].k
       IN  IF ~DictHas(bi.layer_value_to_components, <<layer, val>>)
               THEN cv' = cv
           ELSE
               LET val_cs == DictGet(bi.layer_value_to_components, <<layer, val>>)
                   prefixes == group_by_prefix(val_cs, 1, <<>>)
                   all_cs == IF DictHas(bi.layer_to_components, layer)
                                 THEN DictGet(bi.layer_to_components, layer)
                             ELSE <<>>
               IN  cv' = cv \o pages_of(val, prefixes, all_cs, val_cs, 1)
    /\ next_val' = next_val + 1
    /\ UNCHANGED <<pc, doc, bi, ourcomps, next_elem, err, layer>>

\* Line 287: cv.save() after the loop.
Save ==
    /\ pc = "layout"
    /\ next_val > Len(bi.value_to_components)
    /\ pc' = "done"
    /\ UNCHANGED <<doc, bi, ourcomps, next_elem, err, layer, next_val, cv>>

\* ------------------------------------------------- the inputs considered
\* <layers> sections: the usual numbering; Top and Bottom numbered the other
\* way round.
StdLayers == <<LayerDef("Top", "1"), LayerDef("Bottom", "16"), LayerDef("Dimension", "20")>>

LayerTablesX ==
    {StdLayers,
     <<LayerDef("Top", "16"), LayerDef("Bottom", "1"), LayerDef("Dimension", "20")>>}

\* ... and with the Dimension layer numbered 21, with a second Dimension
\* definition, without number attributes, and with a definition missing.
LayerTablesB ==
    {StdLayers,
     <<[name |-> "Top"], [name |-> "Bottom"], LayerDef("Dimension", "20")>>,
     <<LayerDef("Top", "1"), LayerDef("Bottom", "16"), LayerDef("Dimension", "21")>>,
     <<LayerDef("Dimension", "21"), LayerDef("Top", "1"), LayerDef("Bottom", "16"),
       LayerDef("Dimension", "20")>>,
     <<LayerDef("Top", "1"), LayerDef("Bottom", "16"), [name |-> "Dimension"]>>,
     <<LayerDef("Top", "1"), LayerDef("Bottom", "16")>>,
     <<LayerDef("Bottom", "16"), LayerDef("Dimension", "20")>>,
     <<LayerDef("Top", "1"), LayerDef("Dimension", "20")>>}

\* <wire> elements: outline segments on layers 20 and 21, one of them with a
\* coordinate that is no number.
WiresB ==
    {Wire("20", <<"0">>, <<"0">>, <<"5">>, <<"0">>),
     Wire("20", <<"5">>, <<"3">>, <<"-", "2">>, <<"3">>),
     Wire("20", <<"1">>, <<"-", "4">>, <<"1">>, <<"2">>),
     Wire("21", <<"-", "7">>, <<"0">>, <<"9">>, <<"0">>),
     Wire("21", <<"9">>, <<"8">>, <<"9">>, <<"-", "6">>),
     Wire("20", <<"0">>, <<"0">>, <<"a", "b", "c">>, <<"0">>)}

OutlineWire == {Wire("20", <<"0">>, <<"0">>, <<"5">>, <<"3">>)}

\* <element> placements for the layout: names with prefix R, with prefix C
\* and without prefix, two values, a top and a bottom package, and one
\* element whose package has no pads.
ElementsL ==
    {Element(n, v, "0402") :
        n \in {<<"R", "1">>, <<"R", "2">>, <<"C", "1">>, <<"U">>},
        v \in {"10k", "22k"}}
    \cup {Element(<<"R", "1">>, "10k", "BOT"), Element(<<"C", "1">>, "10k", "BOT")}
    \cup {Element(<<"H", "1">>, "10k", "HOLE")}

\* <element> placements for the extraction: mirrored and rotated ones, pads
\* on different layers, pad-less packages, and the malformed ones.
ElementsX ==
    {Element(<<"R", "1">>, "10k", "0402"),
     Element(<<"R", "1">>, "22k", "BOT") @@ ("rot" :> <<"M", "R", "9", "0">>),
     Element(<<"C", " ", "2">>, "10k", "MIX") @@ ("rot" :> <<"M", "R", "0">>),
     Element(<<"C", " ", "2">>, "10k", "MIX") @@ ("rot" :> <<"R", "4", "5", ".", "5">>),
     Element(<<"U">>, "22k", "INNER") @@ ("rot" :> <<"M", "R", "1", "8", "0">>),
     Element(<<"R", "3">>, "10k", "0402") @@ ("rot" :> <<"9", "0">>),
     Element(<<"H", "1">>, "10k", "HOLE"),
     Without(Element(<<"H", "2">>, "10k", "HOLE"), "value"),
     Without(Element(<<"R", "1">>, "10k", "HOLE"), "x") @@ ("rot" :> <<"x">>),
     Element(<<"R", "4">>, "10k", "NEG"),
     Element(<<"R", "5">>, "10k", "INF"),
     Element(<<"R", "7">>, "10k", "BADF"),
     Element(<<"D", "2">>, "22k", "FRAC"),
     Element(<<"D", "3">>, "22k", "MROT"),
     Element(<<"D", "4">>, "22k", "BADROT"),
     Element(<<>>, "10k", "0402")}

\* ------------------------------------------------------ the specifications
NextOn(LayerTables, Wires, Elements, LayerArgs) ==
    \/ ParseLayers(LayerTables)
    \/ ParseWire(Wires)
    \/ ParseElement(Elements)
    \/ GetLayers
    \/ GetBounds
    \/ GetComponent
    \/ ReturnBoardInfo
    \/ Main(LayerArgs)
    \/ LayoutValue
    \/ Save

\* The layout driver on well-formed boards.
Next == NextOn({StdLayers}, OutlineWire, ElementsL, {"top", "Bottom", "2"})
Spec == Init /\ [][Next]_vars

\* The extractor on elements and packages of every shape.
NextExtract == NextOn(LayerTablesX, OutlineWire, ElementsX, {"TOP"})
SpecExtract == Init /\ [][NextExtract]_vars

\* The extractor on layer tables and outlines of every shape.
NextBounds ==
    NextOn(LayerTablesB, WiresB, {Element(<<"R", "1">>, "10k", "0402")}, {"top"})
SpecBounds == Init /\ [][NextBounds]_vars

\* ------------------------------------------------------------ the pages
\* A page is identified by the index of its showPage on the canvas; it
\* starts after the previous showPage (or after setPageSize).
PageEnds == {i \in 1..Len(cv) : cv[i].op = "showPage"}

PageStart(e) ==
    LET before == {i \in PageEnds : i < e}
    IN  IF before = {} THEN 2 ELSE 1 + CHOOSE i \in before : \A j \in before : j <= i

Heading(e) == cv[PageStart(e)]

\* The components drawn in the given tone on page e.
DrawnIn(e, tone) ==
    {cv[i].c : i \in {j \in PageStart(e)..e : cv[j].op = "drawPath" /\ cv[j].fill = tone}}

Range(seq) == {seq[i] : i \in 1..Len(seq)}

\* The components of the (layer, value) index entries of the chosen layer.
OnLayer ==
    UNION {Range(bi.layer_value_to_components[i].v) :
              i \in {j \in 1..Len(bi.layer_value_to_components) :
                        bi.layer_value_to_components[j].k[1] = layer}}

\* Component c is named in the heading of page e.
NamedOn(c, e) ==
    /\ Heading(e).op = "drawCentredString"
    /\ Heading(e).val = c.value
    /\ c.name \in Range(Heading(e).names)

\* C1: after layout_by_same_value finishes, every component of the
\* (layer, value) index of the chosen layer is named in the heading of exactly
\* one page, and no component is drawn in the highlight tone on more than one
\* page.
C1_GroupingCompleteness ==
    pc = "done" =>
        \A c \in OnLayer :
            /\ Cardinality({e \in PageEnds : NamedOn(c, e)}) = 1
            /\ Cardinality({e \in PageEnds : c.id \in DrawnIn(e, HIGHLIGHT_COLOR)}) <= 1

\* C2: on every page, the components drawn in the highlight tone are exactly
\* the components named in that page's heading (the current prefix group).
C2_HighlightIsPrefixGroup ==
    \A e \in PageEnds :
        DrawnIn(e, HIGHLIGHT_COLOR) = {c.id : c \in {d \in OnLayer : NamedOn(d, e)}}

\* C3: the number of pages emitted equals the number of distinct
\* (value, prefix) pairs among the components resolved to the target layer
\* (no prefix counting as a group of its own); values without a component on
\* the layer, and a layer without components, give no page.
C3_OnePagePerGroup ==
    pc = "done" =>
        Cardinality(PageEnds) =
            Cardinality({<<c.value, c.prefix>> :
                            c \in {d \in Range(bi.components) : d.layer = layer}})

\* A finished layout of a board with a component without prefix on the
\* target layer and a component of another value on another layer.
C3_Witness ==
    /\ pc = "done"
    /\ Cardinality(PageEnds) = 1
    /\ \E c, d \in Range(bi.components) :
          /\ c.layer = layer /\ c.prefix = NoPrefix
          /\ d.layer # layer /\ d.value # c.value

\* C9: within every page the heading comes first, then pad draws only, all
\* muted-tone draws before any highlight-tone draw, and showPage last; no
\* drawing is left outside a closed page.
C9_MutedBeforeHighlight ==
    /\ \A e \in PageEnds :
          /\ Heading(e).op = "drawCentredString"
          /\ \A i \in (PageStart(e) + 1)..(e - 1) : cv[i].op = "drawPath"
          /\ \A i, j \in (PageStart(e) + 1)..(e - 1) :
                (i < j /\ cv[i].fill = HIGHLIGHT_COLOR) => cv[j].fill = HIGHLIGHT_COLOR
    /\ Len(cv) > 1 => cv[Len(cv)].op = "showPage"

\* A page on which both tones are drawn.
C9_Witness ==
    \E e \in PageEnds :
        DrawnIn(e, NORMAL_COLOR) # {} /\ DrawnIn(e, HIGHLIGHT_COLOR) # {}

\* ------------------------------------------------------- the extraction
\* The extraction has returned its BoardInfo.
Extracted == pc \in {"extracted", "layout", "done"}

\* The exception was raised by the loop over the elements, at element i.
FailedAt(i) == pc = "failed" /\ bi.width # NoneF /\ next_elem = i

\* The package element e refers to defines no smd pad.
ZeroPad(e) ==
    /\ "package" \in DOMAIN e
    /\ Len(XPathByName(Packages, e.package)) > 0
    /\ XPathByName(Packages, e.package)[1].smds = <<>>

\* The smd children of the package of component c's element.
SmdsOf(c) == XPathByName(Packages, doc.elements[c.id].package)[1].smds

\* Every component held by the component lists or by an index.
Held ==
    Range(ourcomps) \cup Range(bi.components)
    \cup {bi.name_to_component[i].v : i \in 1..Len(bi.name_to_component)}
    \cup UNION {Range(bi.value_to_components[i].v) : i \in 1..Len(bi.value_to_components)}
    \cup UNION {Range(bi.layer_to_components[i].v) : i \in 1..Len(bi.layer_to_components)}
    \cup UNION {Range(bi.layer_value_to_components[i].v) :
                   i \in 1..Len(bi.layer_value_to_components)}

\* The outline segments the claim speaks of: the wires on the layer whose
\* number the first Dimension layer definition declares.
DeclaredDimension == XPathByName(doc.layers, "Dimension")[1].number

DeclaredOutline ==
    SelectSeq(doc.wires, LAMBDA w : w.layer = DeclaredDimension)

ValidWires ==
    \A w \in Range(doc.wires) :
        \A a \in {"x1", "y1", "x2", "y2"} : a \in DOMAIN w /\ PyFloat(w[a]).ok

SetMin(S) == CHOOSE x \in S : \A y \in S : x <= y
SetMax(S) == CHOOSE x \in S : \A y \in S : y <= x

Coords(ws, a, b) == UNION {{PyFloat(w[a]).v.v, PyFloat(w[b]).v.v} : w \in Range(ws)}

\* C4: for a valid document whose Dimension layer declares a number, the
\* bounding box is the min/max over both endpoints of exactly the wires on
\* that layer, and the outline step fails only if there are fewer than two of
\* them.
C4_BoundingBoxOfDeclaredLayer ==
    (/\ pc \notin {"parse_layers", "parse_body", "bounds"}
     /\ Len(XPathByName(doc.layers, "Dimension")) > 0
     /\ "number" \in DOMAIN XPathByName(doc.layers, "Dimension")[1]
     /\ ValidWires)
    =>
    /\ err = "Error processing dimension layer wires" => Len(DeclaredOutline) < 2
    /\ bi.width # NoneF =>
          /\ Len(DeclaredOutline) >= 2
          /\ bi.xmin = Fin(SetMin(Coords(DeclaredOutline, "x1", "x2")))
          /\ bi.xmax = Fin(SetMax(Coords(DeclaredOutline, "x1", "x2")))
          /\ bi.ymin = Fin(SetMin(Coords(DeclaredOutline, "y1", "y2")))
          /\ bi.ymax = Fin(SetMax(Coords(DeclaredOutline, "y1", "y2")))

\* The element of component c is mirrored: its rot starts with the marker.
Mirrored(c) ==
    LET e == doc.elements[c.id]
    IN  "rot" \in DOMAIN e /\ Len(e.rot) > 0 /\ e.rot[1] = "M"

\* C5: a mirrored component whose first pad is on the top copper layer is
\* resolved to the bottom copper layer, and vice versa; a component that is
\* not mirrored is resolved to its first pad's layer, whatever the layers of
\* its later pads.
C5_MirrorSwapsLayer ==
    \A c \in Range(ourcomps) :
        LET first == SmdsOf(c)[1].layer
        IN  /\ (Mirrored(c) /\ first = bi.top_layer) => c.layer = bi.bottom_layer
            /\ (Mirrored(c) /\ first = bi.bottom_layer) => c.layer = bi.top_layer
            /\ ~Mirrored(c) => c.layer = first

\* A mirrored component moved from top to bottom and a component that is not
\* mirrored, both on a package whose second pad is on another layer than
\* its first.
C5_Witness ==
    \E c, d \in Range(ourcomps) :
        /\ Mirrored(c) /\ SmdsOf(c)[1].layer = bi.top_layer
        /\ bi.top_layer # bi.bottom_layer /\ c.layer = bi.bottom_layer
        /\ ~Mirrored(d) /\ Len(SmdsOf(d)) >= 2
        /\ SmdsOf(d)[2].layer # SmdsOf(d)[1].layer

\* No component was built from element i.
Absent(i) == \A c \in Held : c.id # i

\* C6 as stated: an element whose package defines no smd pad is in neither
\* the component list nor an index, and extraction does not fail at it.
C6_ZeroPadNeverFails ==
    \A i \in 1..Len(doc.elements) :
        ZeroPad(doc.elements[i]) => Absent(i) /\ ~FailedAt(i)

\* C6, amended: an element whose package defines no smd pad is in neither the
\* component list nor an index, and extraction does not fail at it if it
\* carries a non-empty name and a value (nothing else of it is examined).
C6_ZeroPadSkipped ==
    \A i \in 1..Len(doc.elements) :
        LET e == doc.elements[i]
        IN  ZeroPad(e) =>
                /\ Absent(i)
                /\ ("name" \in DOMAIN e /\ e.name # <<>> /\ "value" \in DOMAIN e)
                      => ~FailedAt(i)

\* A returned BoardInfo with a component, from a document holding a pad-less
\* element that has neither x nor a well-formed rot.
C6_Witness ==
    /\ Extracted
    /\ bi.components # <<>>
    /\ \E i \in 1..Len(doc.elements) :
          ZeroPad(doc.elements[i]) /\ "x" \notin DOMAIN doc.elements[i]

\* C7: every pad of every component has a finite, non-negative width and
\* height.
C7_PadSizeNonNegativeFinite ==
    \A c \in Held : \A p \in Range(c.pads) :
        /\ p.width.k = "fin" /\ p.width.v >= 0
        /\ p.height.k = "fin" /\ p.height.v >= 0

\* "R", integer degrees, optionally "." and fractional digits; no mirror
\* marker.
PadRotGrammar(rot) ==
    /\ Len(rot) >= 2
    /\ rot[1] = "R"
    /\ \E d \in 2..Len(rot) :
          /\ \A k \in 2..d : IsDigit(rot[k])
          /\ \/ d = Len(rot)
             \/ /\ d + 2 <= Len(rot)
                /\ rot[d + 1] = "."
                /\ \A k \in (d + 2)..Len(rot) : IsDigit(rot[k])

\* C8: a pad's rot is accepted only if it matches the grammar without the
\* mirror marker: no component is built from a package with a pad whose rot
\* does not, a rot with a leading "M" included.
C8_PadRotWithoutMirror ==
    \A c \in Range(ourcomps) : \A p \in Range(SmdsOf(c)) :
        "rot" \in DOMAIN p => PadRotGrammar(p.rot)

\* C10: in a returned BoardInfo the value, layer and (layer, value) index
\* lists are exactly the components of that key in component-list order (so
\* each component is in each index once, under its own key, and no list holds
\* anything else), and the name index maps each name to the last component
\* bearing it.
C10_IndexConsistency ==
    Extracted =>
        LET cs == bi.components
            Keyed(d, Key(_)) ==
                /\ \A i, j \in 1..Len(d) : d[i].k = d[j].k => i = j
                /\ \A i \in 1..Len(d) :
                      d[i].v # <<>> /\ d[i].v = SelectSeq(cs, LAMBDA c : Key(c) = d[i].k)
                /\ \A c \in Range(cs) : DictHas(d, Key(c))
            ValueOf(c) == c.value
            LayerOf(c) == c.layer
            PairOf(c) == <<c.layer, c.value>>
            nm == bi.name_to_component
        IN  /\ \A i, j \in 1..Len(cs) : cs[i].id = cs[j].id => i = j
            /\ Keyed(bi.value_to_components, ValueOf)
            /\ Keyed(bi.layer_to_components, LayerOf)
            /\ Keyed(bi.layer_value_to_components, PairOf)
            /\ \A i, j \in 1..Len(nm) : nm[i].k = nm[j].k => i = j
            /\ \A c \in Range(cs) : DictHas(nm, c.name)
            /\ \A i \in 1..Len(nm) :
                  \E j \in 1..Len(cs) :
                      /\ cs[j] = nm[i].v
                      /\ cs[j].name = nm[i].k
                      /\ \A k \in (j + 1)..Len(cs) : cs[k].name # nm[i].k

\* A returned BoardInfo with two components of one name on one layer.
C10_Witness ==
    /\ Extracted
    /\ \E i, j \in 1..Len(bi.components) :
          /\ i < j
          /\ bi.components[i].name = bi.components[j].name
          /\ bi.components[i].layer = bi.components[j].layer

====
